---------------------------- MODULE Spec2Model ----------------------------
(***************************************************************************)
(* The two tutorial notebooks docs/tutorials/cta_sensitivity.ipynb and     *)
(* docs/tutorials/detect.ipynb as straight-line programs run by a kernel.  *)
(*                                                                         *)
(* A kernel session runs one notebook.  Its code cells are executed top to *)
(* bottom, statement by statement; a statement that raises ends the run.   *)
(* The state is the kernel's namespace (which statement bound each name),  *)
(* the objects the statements build (arrays as sequences, exact rationals  *)
(* as <<numerator, denominator>>), and the history of executed statements. *)
(*                                                                         *)
(* The library behind the calls (gammapy.estimators, gammapy.datasets,     *)
(* gammapy.irf) is not part of the two files; the operators that stand for *)
(* it follow the notebooks' own descriptions of the calls.  In Spec the     *)
(* images of detect.ipynb are carried by name and by the estimator that    *)
(* returned them; what find_peaks and the adaptive smoothing do to an      *)
(* image is stated in SpecPeaks and SpecSmooth, which apply each call to   *)
(* every image of a bounded family.                                        *)
(***************************************************************************)
EXTENDS Integers, Sequences, FiniteSets, TLC

VARIABLES
    nb,        \* the notebook this kernel session runs
    pc,        \* index of the next statement of the notebook
    status,    \* "running", "done" or "failed"
    ns,        \* namespace: name -> index of the statement that bound it (0: unbound)
    mem,       \* the objects built so far (record of arrays and scalars)
    log,       \* history: one record per statement that began
    raised,    \* the exception the failing statement raised ("" if none)
    surfaced,  \* the exception the kernel reported ("" if none)
    image,     \* SpecPeaks: the sqrt_ts image given to find_peaks
    peaks,     \* SpecPeaks: the candidates find_peaks returned
    cube,      \* SpecSmooth: significance of each pixel at each scale
    smoothed,  \* SpecSmooth: the image the adaptive smoothing returned
    phase      \* "notebook" in Spec; in SpecPeaks and SpecSmooth, before or after the call

vars == <<nb, pc, status, ns, mem, log, raised, surfaced,
          image, peaks, cube, smoothed, phase>>

-----------------------------------------------------------------------------
(* Bounds of the model *)

\* largest background count per bin an IRF file of the model holds
MaxBkg == 3
\* largest 68% containment radius of an IRF file, in units of 0.05 deg
MaxRadius == 3
\* largest effective-area scale of an IRF file
MaxAeff == 2
\* largest number of energy planes of the counts cube
MaxEnergyBins == 2
\* largest number of pixels of one plane of the counts cube
MaxPixels == 3
\* width and height of the sqrt_ts images given to find_peaks
ImageWidth == 3
ImageHeight == 2
\* largest number of pixels of a sqrt_ts image that stand out of the flat rest
MaxHot == 2
\* number of pixels of the images given to the adaptive smoothing
SmoothPixels == 2
\* largest number of (pixel, scale) entries whose significance stands out
MaxSignificant == 2

-----------------------------------------------------------------------------
(* Exact rationals <<numerator, denominator>>, denominator > 0 *)

RMul(a, b) == <<a[1] * b[1], a[2] * b[2]>>
RDiv(a, b) == <<a[1] * b[2], a[2] * b[1]>>
REq(a, b) == a[1] * b[2] = b[1] * a[2]

-----------------------------------------------------------------------------
(* The notebooks as statement tables *)

St(c, l1, l2, o, k, r, w) ==
    [cell |-> c, first |-> l1, last |-> l2, op |-> o, kind |-> k,
     reads |-> r, writes |-> w]

SensitivityCells ==
    << St(1, 39, 41, "import", "import", {}, {"plt", "np"}),
       St(2, 50, 59, "import", "import", {},
          {"u", "SkyCoord", "CircleSkyRegion", "load_cta_irfs",
           "SpectrumDatasetMaker", "Observation", "SensitivityEstimator",
           "SpectrumDataset", "SpectrumDatasetOnOff", "MapAxis"}),
       St(3, 77, 77, "SkyCoord", "define", {"SkyCoord"}, {"center"}),
       St(3, 78, 78, "CircleSkyRegion", "define",
          {"CircleSkyRegion", "center", "u"}, {"region"}),
       St(3, 80, 80, "MapAxis e_reco", "define", {"MapAxis"}, {"e_reco"}),
       St(3, 81, 81, "MapAxis e_true", "define", {"MapAxis"}, {"e_true"}),
       St(3, 83, 85, "SpectrumDataset.create", "define",
          {"SpectrumDataset", "e_reco", "e_true", "region"}, {"empty_dataset"}),
       St(4, 103, 105, "load_cta_irfs", "read", {"load_cta_irfs"}, {"irfs"}),
       St(4, 107, 107, "SkyCoord", "define", {"SkyCoord"}, {"pointing"}),
       St(4, 108, 108, "Observation.create", "define",
          {"Observation", "pointing", "irfs"}, {"obs"}),
       St(5, 117, 119, "SpectrumDatasetMaker", "define",
          {"SpectrumDatasetMaker"}, {"spectrum_maker"}),
       St(5, 120, 120, "SpectrumDatasetMaker.run", "construct",
          {"spectrum_maker", "empty_dataset", "obs"}, {"dataset"}),
       St(6, 136, 136, "containment", "assign", {}, {"containment"}),
       St(6, 139, 139, "aeff*=", "mutate", {"dataset", "containment"}, {}),
       St(6, 142, 144, "containment_radius", "define",
          {"obs", "e_reco", "u", "containment"}, {"on_radii"}),
       St(6, 145, 145, "factor", "define", {"np", "on_radii", "region"}, {"factor"}),
       St(6, 146, 146, "background*=", "mutate", {"dataset", "factor"}, {}),
       St(7, 162, 164, "SpectrumDatasetOnOff.from_spectrum_dataset", "construct",
          {"SpectrumDatasetOnOff", "dataset"}, {"dataset_on_off"}),
       St(8, 183, 183, "SensitivityEstimator", "define",
          {"SensitivityEstimator"}, {"sensitivity_estimator"}),
       St(8, 184, 184, "SensitivityEstimator.run", "estimate",
          {"sensitivity_estimator", "dataset_on_off"}, {"sensitivity_table"}),
       St(9, 204, 204, "display", "inspect", {"sensitivity_table"}, {}),
       St(10, 213, 214, "comment", "noop", {}, {}),
       St(11, 224, 224, "t", "assign", {"sensitivity_table"}, {"t"}),
       St(11, 226, 226, "is_s", "define", {"t"}, {"is_s"}),
       St(11, 227, 233, "plt.plot", "inspect", {"plt", "t", "is_s"}, {}),
       St(11, 235, 235, "is_g", "define", {"t"}, {"is_g"}),
       St(11, 236, 238, "plt.plot", "inspect", {"plt", "t", "is_g"}, {}),
       St(11, 240, 243, "plt.legend", "inspect", {"plt", "t"}, {}),
       St(12, 260, 260, "plt.subplots", "define", {"plt"}, {"fig", "ax1"}),
       St(12, 262, 264, "ax1.plot", "inspect", {"ax1", "t"}, {}),
       St(12, 266, 268, "ax1.set_label", "inspect", {"ax1", "t"}, {}),
       St(12, 270, 270, "ax1.twinx", "define", {"ax1"}, {"ax2"}),
       St(12, 271, 274, "ax2.semilogy", "inspect", {"ax2", "t", "on_radii"}, {}) >>

DetectCells ==
    << St(1, 52, 71, "import", "import", {},
          {"plt", "cm", "Map", "ASmoothMapEstimator", "TSMapEstimator",
           "find_peaks", "MapDataset", "BackgroundModel", "SkyModel",
           "PowerLawSpectralModel", "PointSpatialModel", "PSFMap",
           "EnergyDependentTablePSF", "SkyCoord", "u", "np"}),
       St(2, 89, 91, "Map.read counts", "read", {"Map"}, {"counts"}),
       St(2, 92, 94, "Map.read", "read", {"Map"}, {"background"}),
       St(2, 95, 95, "BackgroundModel", "define",
          {"BackgroundModel", "background"}, {"background"}),
       St(2, 97, 99, "Map.read", "read", {"Map"}, {"exposure"}),
       St(2, 101, 101, "exposure.unit=", "mutate", {"exposure"}, {}),
       St(2, 102, 102, "mask_safe", "define", {"counts", "np"}, {"mask_safe"}),
       St(2, 104, 106, "EnergyDependentTablePSF.read", "read",
          {"EnergyDependentTablePSF"}, {"psf"}),
       St(2, 107, 107, "PSFMap.from_energy_dependent_table_psf", "define",
          {"PSFMap", "psf"}, {"psfmap"}),
       St(2, 109, 116, "MapDataset", "construct",
          {"MapDataset", "counts", "background", "exposure", "psfmap", "mask_safe"},
          {"dataset"}),
       St(2, 118, 118, "to_image", "construct", {"dataset"}, {"dataset"}),
       St(3, 139, 139, "scales", "define", {"u", "np"}, {"scales"}),
       St(3, 140, 140, "ASmoothMapEstimator", "define",
          {"ASmoothMapEstimator", "scales"}, {"smooth"}),
       St(3, 141, 141, "ASmoothMapEstimator.run", "estimate",
          {"smooth", "dataset"}, {"images"}),
       St(3, 143, 143, "plt.figure", "define", {"plt"}, {}),
       St(3, 144, 144, "plot counts", "inspect", {"images"}, {}),
       St(4, 165, 165, "PointSpatialModel", "define",
          {"PointSpatialModel"}, {"spatial_model"}),
       St(4, 166, 166, "PowerLawSpectralModel", "define",
          {"PowerLawSpectralModel"}, {"spectral_model"}),
       St(4, 167, 167, "SkyModel", "define",
          {"SkyModel", "spatial_model", "spectral_model"}, {"model"}),
       St(5, 177, 177, "TSMapEstimator", "define",
          {"TSMapEstimator", "model"}, {"estimator"}),
       St(5, 178, 178, "TSMapEstimator.run", "estimate",
          {"estimator", "dataset"}, {"images"}),
       St(6, 194, 194, "plt.figure", "define", {"plt"}, {}),
       St(6, 195, 195, "plot sqrt_ts", "inspect", {"images"}, {}),
       St(7, 204, 204, "plt.figure", "define", {"plt"}, {}),
       St(7, 205, 205, "plot flux", "inspect", {"images"}, {}),
       St(8, 214, 214, "plt.figure", "define", {"plt"}, {}),
       St(8, 215, 215, "plot niter", "inspect", {"images"}, {}),
       St(9, 234, 234, "find_peaks", "estimate", {"find_peaks", "images"}, {"sources"}),
       St(9, 235, 235, "len", "assign", {"sources"}, {"nsou"}),
       St(9, 236, 236, "display", "inspect", {"sources"}, {}),
       St(10, 246, 246, "plt.figure", "define", {"plt"}, {}),
       St(10, 248, 248, "plot sqrt_ts", "inspect", {"images"}, {"ax"}),
       St(10, 250, 259, "ax.scatter", "inspect", {"ax", "sources", "plt"}, {}),
       St(11, 290, 290, "empty", "noop", {}, {}) >>

Notebooks == {"cta_sensitivity", "detect"}

\* the cells of a notebook in the order of the document
ProgEstimatorCellFirst(n) ==
    IF n = "cta_sensitivity"
    THEN [i \in 1..Len(SensitivityCells) |->
            SensitivityCells[CASE i = 18 -> 19 [] i = 19 -> 20 [] i = 20 -> 18 [] OTHER -> i]]
    ELSE DetectCells
\* (detect.ipynb with the result of estimator.run(dataset) not assigned)
ProgTsResultDropped(n) ==
    IF n = "cta_sensitivity" THEN SensitivityCells
    ELSE [i \in 1..Len(DetectCells) |->
            IF DetectCells[i].op = "TSMapEstimator.run"
            THEN [DetectCells[i] EXCEPT !.writes = {}]
            ELSE DetectCells[i]]
Prog(n) == IF n = "cta_sensitivity" THEN SensitivityCells ELSE DetectCells

-----------------------------------------------------------------------------
(* Arguments the notebooks pass *)

\* MapAxis.from_energy_bounds("0.03 TeV", "30 TeV", nbin=20)
nbin == 20
\* MapAxis.from_energy_bounds("0.01 TeV", "100 TeV", nbin=100)
ntrue == 100
\* CircleSkyRegion(radius=0.1 * u.deg), in units of 0.05 deg
region_radius == 2
\* containment = 0.68
containment == <<68, 100>>
\* from_spectrum_dataset(acceptance=1, acceptance_off=5)
acceptance == 1
\* (the two acceptances passed the other way round)
acceptance_off_swapped == acceptance
acceptance_off == 5
\* SensitivityEstimator(gamma_min=5, sigma=3)
sigma == 3
\* (the two arguments passed the other way round)
gamma_min_swapped == sigma
gamma_min == 5
\* scales = np.arange(0.05, 1, 0.05): 19 scales
nscales == 19
\* ASmoothMapEstimator(threshold=3, scales=scales)
\* (a threshold one lower)
smooth_threshold_lower == sigma - 1
smooth_threshold == 3
\* find_peaks(images["sqrt_ts"], threshold=8, min_distance=1)
\* (a threshold one lower)
peak_threshold_lower == gamma_min + 2
peak_threshold == 8
min_distance == 1

-----------------------------------------------------------------------------
(* Input files *)

\* What a statement takes from outside: the IRF file's content (background
\* counts and 68% containment radius below and above the middle of the
\* reconstructed-energy axis, effective-area scale) or the counts cube's shape.
NoInput ==
    [bkgHi |-> 0, bkgLo |-> 0, rHi |-> 0, rLo |-> 0, aeff0 |-> 0, ne |-> 0, npix |-> 0]

IrfFiles ==
    [bkgHi : 0..MaxBkg, bkgLo : 0..MaxBkg, rHi : 1..MaxRadius, rLo : 1..MaxRadius,
     aeff0 : 1..MaxAeff, ne : {0}, npix : {0}]

CountsCubes ==
    [bkgHi : {0}, bkgLo : {0}, rHi : {0}, rLo : {0}, aeff0 : {0},
     ne : 1..MaxEnergyBins, npix : 1..MaxPixels]

Inputs(s) ==
    IF s.op = "load_cta_irfs" THEN IrfFiles
    ELSE IF s.op = "Map.read counts" THEN CountsCubes
    ELSE {NoInput}

\* background counts of reconstructed-energy bin i in the ON region
BkgAt(irf, i) == IF 2 * i <= nbin THEN irf.bkgHi ELSE irf.bkgLo
\* 68% containment radius at the centre of reconstructed-energy bin i
RadiusAt(irf, i) == IF 2 * i <= nbin THEN irf.rHi ELSE irf.rLo

-----------------------------------------------------------------------------
(* Objects of the kernel *)

EmptyMem ==
    [irf |-> NoInput, e_reco |-> 0, e_true |-> 0,
     aeff |-> << >>, background |-> << >>, containment |-> <<0, 1>>,
     on_radii |-> << >>, factor |-> << >>,
     alpha |-> << >>, counts_off |-> << >>,
     table |-> << >>, is_s |-> << >>, is_g |-> << >>,
     shape |-> <<0, 0>>, mask_safe |-> << >>,
     dataset_kind |-> "none", dataset_mask |-> << >>,
     images |-> "none"]

\* 1 - cos(r) for r in units of 0.05 deg, in fixed point with 7 decimals
OneMinusCos(r) == <<4, 15, 34, 61, 95, 137, 187, 244, 308, 381, 461, 548>>[r]

-----------------------------------------------------------------------------
(* The library calls of cta_sensitivity.ipynb *)

\* SpectrumDatasetMaker.run: effective area per true-energy bin and
\* background counts per reconstructed-energy bin, from the observation's IRFs
MakerAeff(m) == [j \in 1..m.e_true |-> <<m.irf.aeff0 * j, 1>>]
MakerBackground(m) == [i \in 1..m.e_reco |-> <<BkgAt(m.irf, i), 1>>]

\* obs.psf.containment_radius(energy=e_reco.center, ...)[0]: one radius per energy
ContainmentRadius(m) == [i \in 1..m.e_reco |-> RadiusAt(m.irf, i)]

\* factor = (1 - np.cos(on_radii)) / (1 - np.cos(region.radius))
FactorReversed(on_radii) ==
    [i \in 1..Len(on_radii) |->
        <<OneMinusCos(on_radii[Len(on_radii) + 1 - i]), OneMinusCos(region_radius)>>]
Factor(on_radii) ==
    [i \in 1..Len(on_radii) |->
        <<OneMinusCos(on_radii[i]), OneMinusCos(region_radius)>>]

\* SpectrumDatasetOnOff.from_spectrum_dataset: alpha = acceptance / acceptance_off
\* per bin, off counts = background / alpha
OnOffAlpha(m) == [i \in 1..Len(m.background) |-> <<acceptance, acceptance_off>>]
OnOffCountsOff(m) ==
    [i \in 1..Len(m.background) |-> RDiv(m.background[i], OnOffAlpha(m)[i])]

\* Significance of e excess counts over background bkg measured with an OFF
\* region of relative size 1/alpha, compared with s: e / sqrt(bkg (1 + alpha)) >= s
SigAtLeast(e, bkg, alpha, s) ==
    e * e * bkg[2] * alpha[2] >= s * s * bkg[1] * (alpha[2] + alpha[1])

\* the smallest whole number of excess counts whose significance reaches s
RECURSIVE ExcessFrom(_, _, _, _)
ExcessFrom(e, bkg, alpha, s) ==
    IF SigAtLeast(e, bkg, alpha, s) THEN e ELSE ExcessFrom(e + 1, bkg, alpha, s)
ExcessMatchingSignificance(bkg, alpha, s) == ExcessFrom(0, bkg, alpha, s)

\* SensitivityEstimator.run: per bin the excess matching sigma, raised to
\* gamma_min where it is smaller; criterion says which of the two set it
SensitivityRow(m, i) ==
    LET bkg == RMul(m.alpha[i], m.counts_off[i])
        ex0 == ExcessMatchingSignificance(bkg, m.alpha[i], sigma)
        ex  == IF ex0 < gamma_min THEN gamma_min ELSE ex0
    IN  [energy |-> i, excess |-> ex, background |-> bkg,
         criterion |-> IF ex = gamma_min THEN "gamma" ELSE "significance"]
SensitivityTable(m) == [i \in 1..Len(m.counts_off) |-> SensitivityRow(m, i)]

\* is_s = t["criterion"] == "significance";  is_g = t["criterion"] == "gamma"
MaskSignificance(table) == [i \in 1..Len(table) |-> table[i].criterion = "significance"]
MaskGammaTypo(table) == [i \in 1..Len(table) |-> table[i].criterion = "gamma_min"]
MaskGamma(table) == [i \in 1..Len(table) |-> table[i].criterion = "gamma"]

-----------------------------------------------------------------------------
(* The library calls of detect.ipynb *)

\* mask_safe = counts.copy(data=np.ones_like(counts.data).astype("bool"))
MaskSafeZeros(shape) == [e \in 1..shape[1] |-> [p \in 1..shape[2] |-> FALSE]]
MaskSafe(shape) == [e \in 1..shape[1] |-> [p \in 1..shape[2] |-> TRUE]]

\* MapDataset.to_image: one plane; a pixel is safe if it is safe at some energy
ToImageMask(mask) ==
    << [p \in 1..Len(mask[1]) |-> \E e \in 1..Len(mask) : mask[e][p]] >>

-----------------------------------------------------------------------------
(* What a statement that returns does to the objects *)

Effect(s, inp, m) ==
    CASE s.op = "MapAxis e_reco" -> [m EXCEPT !.e_reco = nbin]
      [] s.op = "MapAxis e_true" -> [m EXCEPT !.e_true = ntrue]
      [] s.op = "load_cta_irfs" -> [m EXCEPT !.irf = inp]
      [] s.op = "SpectrumDatasetMaker.run" ->
            [m EXCEPT !.aeff = MakerAeff(m), !.background = MakerBackground(m)]
      [] s.op = "containment" -> [m EXCEPT !.containment = containment]
      [] s.op = "aeff*=" ->
            [m EXCEPT !.aeff = [j \in 1..Len(m.aeff) |-> RMul(m.aeff[j], m.containment)]]
      [] s.op = "containment_radius" -> [m EXCEPT !.on_radii = ContainmentRadius(m)]
      [] s.op = "factor" -> [m EXCEPT !.factor = Factor(m.on_radii)]
      [] s.op = "background*=" ->
            [m EXCEPT !.background =
                [i \in 1..Len(m.background) |->
                    RMul(m.background[i], m.factor[IF Len(m.factor) = 1 THEN 1 ELSE i])]]
      [] s.op = "SpectrumDatasetOnOff.from_spectrum_dataset" ->
            [m EXCEPT !.alpha = OnOffAlpha(m), !.counts_off = OnOffCountsOff(m)]
      [] s.op = "SensitivityEstimator.run" -> [m EXCEPT !.table = SensitivityTable(m)]
      [] s.op = "is_s" -> [m EXCEPT !.is_s = MaskSignificance(m.table)]
      [] s.op = "is_g" -> [m EXCEPT !.is_g = MaskGamma(m.table)]
      [] s.op = "Map.read counts" -> [m EXCEPT !.shape = <<inp.ne, inp.npix>>]
      [] s.op = "mask_safe" -> [m EXCEPT !.mask_safe = MaskSafe(m.shape)]
      [] s.op = "MapDataset" ->
            [m EXCEPT !.dataset_kind = "cube", !.dataset_mask = m.mask_safe]
      [] s.op = "to_image" ->
            [m EXCEPT !.dataset_kind = "image",
                      !.dataset_mask = ToImageMask(m.dataset_mask)]
      [] s.op = "ASmoothMapEstimator.run" -> [m EXCEPT !.images = "ASmoothMapEstimator"]
      [] s.op = "TSMapEstimator.run" -> [m EXCEPT !.images = "TSMapEstimator"]
      [] OTHER -> m

-----------------------------------------------------------------------------
(* The kernel *)

Range(f) == {f[i] : i \in DOMAIN f}

AllNames == UNION {s.reads \cup s.writes : s \in Range(SensitivityCells) \cup Range(DetectCells)}

\* Neither notebook wraps a statement in try/except: "none" for every statement.
\* ("swallow": except-and-continue; "retry": except-and-run-again.)
TryExceptSwallow(n, k) == IF Prog(n)[k].kind = "read" THEN "swallow" ELSE "none"
TryExcept(n, k) == "none"

\* numpy refuses an in-place product of arrays whose lengths do not broadcast
MustRaise(s, m) ==
    s.op = "background*=" /\ Len(m.factor) \notin {1, Len(m.background)}

\* what a statement can raise
RaisedBy(s, names, m) ==
    IF \E x \in s.reads : names[x] = 0 THEN {"NameError"}
    ELSE IF MustRaise(s, m) THEN {"ValueError"}
    ELSE IF s.kind = "read" THEN {"FileNotFoundError"}
    ELSE IF s.kind \in {"assign", "noop"} THEN {}
    ELSE {"ValueError", "UnitConversionError"}

LogEntry(k, s, ok) ==
    [k |-> k, ok |-> ok, args |-> [x \in s.reads |-> ns[x]], geom |-> mem.dataset_kind,
     images |-> mem.images]

Init ==
    /\ nb \in Notebooks
    /\ pc = 1
    /\ status = "running"
    /\ ns = [x \in AllNames |-> 0]
    /\ mem = EmptyMem
    /\ log = << >>
    /\ raised = ""
    /\ surfaced = ""
    /\ image = << >>
    /\ peaks = {}
    /\ cube = << >>
    /\ smoothed = << >>
    /\ phase = "notebook"

\* the next statement runs to its end
StatementReturns ==
    /\ phase = "notebook"
    /\ status = "running"
    /\ LET s == Prog(nb)[pc] IN
        /\ \A x \in s.reads : ns[x] # 0
        /\ ~MustRaise(s, mem)
        /\ \E inp \in Inputs(s) : mem' = Effect(s, inp, mem)
        /\ ns' = [x \in AllNames |-> IF x \in s.writes THEN pc ELSE ns[x]]
        /\ log' = Append(log, LogEntry(pc, s, TRUE))
    /\ pc' = pc + 1
    /\ status' = IF pc = Len(Prog(nb)) THEN "done" ELSE "running"
    /\ UNCHANGED <<nb, raised, surfaced, image, peaks, cube, smoothed, phase>>

\* the next statement raises
StatementRaises ==
    /\ phase = "notebook"
    /\ status = "running"
    /\ LET s == Prog(nb)[pc] IN
        /\ \E exc \in RaisedBy(s, ns, mem) : raised' = exc
        /\ log' = Append(log, LogEntry(pc, s, FALSE))
    /\ CASE TryExcept(nb, pc) = "swallow" ->
                /\ pc' = pc + 1
                /\ status' = IF pc = Len(Prog(nb)) THEN "done" ELSE "running"
                /\ surfaced' = surfaced
           [] TryExcept(nb, pc) = "retry" ->
                /\ pc' = pc
                /\ status' = "running"
                /\ surfaced' = surfaced
           [] OTHER ->
                /\ pc' = pc
                /\ status' = "failed"
                /\ surfaced' = raised'
    /\ UNCHANGED <<nb, ns, mem, image, peaks, cube, smoothed, phase>>

Next == StatementReturns \/ StatementRaises

Spec == Init /\ [][Next]_vars

-----------------------------------------------------------------------------
(* C1 *)

EstimatorRuns ==
    {"SensitivityEstimator.run", "ASmoothMapEstimator.run", "TSMapEstimator.run"}
DatasetNames == {"dataset", "dataset_on_off"}
ResultNames == {"sensitivity_table", "images", "sources"}

\* statement b returned and was an estimator call
ProducedByEstimator(b) ==
    b # 0 /\ b <= Len(log) /\ log[b].ok /\ Prog(nb)[b].kind = "estimate"

\* C1: the statements run one at a time in document order, each returning
\* before the next begins; an estimator run begins only with a dataset that a
\* returned construction statement bound, after every statement that reads an
\* input file for it, and no statement constructs or changes a dataset after an
\* estimator run began; a table or map is inspected or plotted only after the
\* estimator call that produced it returned.
C1_StagesInOrder ==
    /\ \A j \in 1..Len(log) :
        /\ log[j].k = j
        /\ j < Len(log) => log[j].ok
        /\ j > 1 => Prog(nb)[j - 1].cell <= Prog(nb)[j].cell
    /\ \A j \in 1..Len(log) :
        LET s == Prog(nb)[j] IN
        /\ s.op \in EstimatorRuns =>
            /\ \A d \in s.reads \cap DatasetNames :
                /\ log[j].args[d] # 0
                /\ Prog(nb)[log[j].args[d]].kind = "construct"
                /\ log[log[j].args[d]].ok
            /\ \E i \in 1..(j - 1) : Prog(nb)[i].kind = "read" /\ log[i].ok
            /\ \A i \in (j + 1)..Len(log) :
                Prog(nb)[i].kind \notin {"read", "construct", "mutate"}
        /\ s.kind = "construct" =>
            \E i \in 1..(j - 1) : Prog(nb)[i].kind = "read" /\ log[i].ok
        /\ s.kind = "inspect" =>
            /\ \A x \in s.reads \cap ResultNames : ProducedByEstimator(log[j].args[x])
            /\ "t" \in s.reads =>
                /\ log[j].args["t"] # 0
                /\ ProducedByEstimator(log[log[j].args["t"]].args["sensitivity_table"])

\* a run that reached its end: estimator ran, results were plotted
C1_Witness ==
    /\ status = "done"
    /\ \E j \in 1..Len(log) : Prog(nb)[j].op \in EstimatorRuns /\ log[j].ok
    /\ \E j \in 1..Len(log) : Prog(nb)[j].kind = "inspect" /\ log[j].ok

\* some statement with this operation has returned
Returned(op) == \E j \in 1..Len(log) : log[j].ok /\ Prog(nb)[j].op = op
\* the position of the statement with this operation in the history (0: not run)
RanAt(op) ==
    IF \E j \in 1..Len(log) : Prog(nb)[j].op = op
    THEN CHOOSE j \in 1..Len(log) : Prog(nb)[j].op = op
    ELSE 0

-----------------------------------------------------------------------------
(* C2 *)

-----------------------------------------------------------------------------
(* C3 *)

-----------------------------------------------------------------------------
(* C4 *)

-----------------------------------------------------------------------------
(* C10 *)

\* C10: the effective area and the background are each scaled by one statement
\* that runs once, after SpectrumDatasetMaker.run and before the on/off dataset
\* is built; from then on the effective area is 0.68 times the maker's in
\* every bin and the background of bin i is the maker's times
\* (1 - cos(on_radii[i])) / (1 - cos(region.radius)); on_radii and factor have
\* 20 entries, and row i of the table carries bin i's background.
C10_ContainmentCorrection ==
    /\ \A j, k \in 1..Len(log) :
        (j # k /\ Prog(nb)[j].kind = "mutate") => Prog(nb)[j].op # Prog(nb)[k].op
    /\ \A op \in {"aeff*=", "background*="} :
        /\ RanAt(op) # 0 =>
            /\ RanAt("SpectrumDatasetMaker.run") # 0
            /\ RanAt("SpectrumDatasetMaker.run") < RanAt(op)
        /\ RanAt("SpectrumDatasetOnOff.from_spectrum_dataset") # 0 =>
            /\ Returned(op)
            /\ RanAt(op) < RanAt("SpectrumDatasetOnOff.from_spectrum_dataset")
    /\ Returned("aeff*=") =>
        /\ Len(mem.aeff) = 100
        /\ \A j \in 1..Len(mem.aeff) :
            REq(mem.aeff[j], RMul(MakerAeff(mem)[j], <<68, 100>>))
    /\ Returned("factor") =>
        /\ Len(mem.on_radii) = 20
        /\ Len(mem.factor) = 20
    /\ Returned("background*=") =>
        /\ Len(mem.background) = 20
        /\ \A i \in 1..Len(mem.background) :
            REq(mem.background[i],
                RMul(MakerBackground(mem)[i],
                     <<OneMinusCos(mem.on_radii[i]), OneMinusCos(region_radius)>>))
    /\ Returned("SensitivityEstimator.run") =>
        /\ Len(mem.table) = Len(mem.on_radii)
        /\ \A i \in 1..Len(mem.table) :
            /\ mem.table[i].energy = i
            /\ REq(mem.table[i].background, mem.background[i])

\* a finished run whose radii differ between bins and whose background is not zero
C10_Witness ==
    /\ nb = "cta_sensitivity"
    /\ status = "done"
    /\ mem.on_radii[1] # mem.on_radii[20]
    /\ mem.background[1][1] > 0
    /\ mem.background[20][1] > 0

-----------------------------------------------------------------------------
(* C7 *)

\* C7: a statement that raises ends the run: the kernel reports the exception
\* that was raised, the failing statement is the last one in the history and
\* appears there once, every statement before it returned, and from then on
\* nothing runs.
C7_FailureEndsTheRun ==
    /\ [](/\ \A j \in 1..Len(log) :
                ~log[j].ok => (status = "failed" /\ j = Len(log) /\ pc = j)
          /\ \A i, j \in 1..Len(log) : i # j => log[i].k # log[j].k
          /\ status = "failed" =>
                /\ Len(log) > 0
                /\ ~log[Len(log)].ok
                /\ raised # ""
                /\ surfaced = raised
          /\ status # "failed" => surfaced = "")
    /\ [][status = "failed" => UNCHANGED vars]_vars

\* a run that stopped at a missing input file, later statements left
C7_Witness ==
    /\ status = "failed"
    /\ surfaced = "FileNotFoundError"
    /\ pc > 1
    /\ pc < Len(Prog(nb))

-----------------------------------------------------------------------------
(* C8 *)

\* the steps the detect notebook announces (Proposed approach)
ProposedApproach ==
    {"adaptive smoothing", "ts map", "peak finder", "li ma significance",
     "radius and excess"}

\* the announced step a call of the notebook carries out
ApproachStep(op) ==
    CASE op = "ASmoothMapEstimator.run" -> "adaptive smoothing"
      [] op = "TSMapEstimator.run" -> "ts map"
      [] op = "find_peaks" -> "peak finder"
      [] OTHER -> "none"

StepsPerformed == {ApproachStep(Prog(nb)[j].op) : j \in {i \in 1..Len(log) : log[i].ok}}

\* C8: a complete run of the detect notebook has carried out all five
\* announced steps.
C8_AllProposedSteps ==
    (nb = "detect" /\ status = "done") => ProposedApproach \subseteq StepsPerformed

-----------------------------------------------------------------------------
(* C9 *)

\* C9: ASmoothMapEstimator.run and TSMapEstimator.run begin only after
\* dataset.to_image() returned, and the dataset they receive is the one that
\* statement bound: an image, not the cube; the safe mask built from the counts
\* cube has the cube's shape and is True everywhere, and the image's mask has
\* one plane with every pixel True.
C9_EstimatorsGetTheImage ==
    /\ \A j \in 1..Len(log) :
        Prog(nb)[j].op \in {"ASmoothMapEstimator.run", "TSMapEstimator.run"} =>
            /\ log[j].args["dataset"] # 0
            /\ Prog(nb)[log[j].args["dataset"]].op = "to_image"
            /\ log[j].geom = "image"
            /\ Len(mem.dataset_mask) = 1
            /\ Len(mem.dataset_mask[1]) = mem.shape[2]
            /\ \A p \in 1..mem.shape[2] : mem.dataset_mask[1][p]
    /\ Returned("mask_safe") =>
        /\ Len(mem.mask_safe) = mem.shape[1]
        /\ \A e \in 1..mem.shape[1] :
            /\ Len(mem.mask_safe[e]) = mem.shape[2]
            /\ \A p \in 1..mem.shape[2] : mem.mask_safe[e][p]

\* both estimators ran on a cube of several energy planes
C9_Witness ==
    /\ Returned("ASmoothMapEstimator.run")
    /\ Returned("TSMapEstimator.run")
    /\ mem.shape[1] > 1
    /\ mem.shape[2] > 1

-----------------------------------------------------------------------------
(* C11 *)

\* the statements that returned and bound the name images, in the order they ran
BindersOfImages == {j \in 1..Len(log) : log[j].ok /\ "images" \in Prog(nb)[j].writes}

\* the calls that take images["sqrt_ts"], images["flux"] or images["niter"]
TsMapReaders == {"plot sqrt_ts", "plot flux", "plot niter", "find_peaks"}

\* the name images was bound by ASmoothMapEstimator.run first and by
\* TSMapEstimator.run second, and by nothing else; every sqrt_ts, flux and
\* niter plot and find_peaks began with images bound by TSMapEstimator.run
ImagesBoundTwice ==
    nb = "detect" =>
        /\ \A j \in BindersOfImages :
            Prog(nb)[j].op \in {"ASmoothMapEstimator.run", "TSMapEstimator.run"}
        /\ \A i, j \in BindersOfImages :
            i < j => /\ Prog(nb)[i].op = "ASmoothMapEstimator.run"
                     /\ Prog(nb)[j].op = "TSMapEstimator.run"
        /\ Returned("TSMapEstimator.run") => Cardinality(BindersOfImages) = 2
        /\ \A j \in 1..Len(log) :
            Prog(nb)[j].op \in TsMapReaders =>
                /\ log[j].args["images"] # 0
                /\ log[log[j].args["images"]].ok
                /\ Prog(nb)[log[j].args["images"]].op = "TSMapEstimator.run"
                /\ log[j].images = "TSMapEstimator"

\* the next statement is images = estimator.run(dataset)
TSMapEstimatorRuns ==
    /\ phase = "notebook"
    /\ status = "running"
    /\ Prog(nb)[pc].op = "TSMapEstimator.run"

\* neither the name dataset nor the object it names is changed
DatasetUnchanged ==
    /\ ns'["dataset"] = ns["dataset"]
    /\ mem'.dataset_kind = mem.dataset_kind
    /\ mem'.dataset_mask = mem.dataset_mask
    /\ mem'.mask_safe = mem.mask_safe
    /\ mem'.shape = mem.shape

-----------------------------------------------------------------------------
(* find_peaks on its own *)

Abs(a) == IF a < 0 THEN -a ELSE a

\* the subsets of S with at most k elements
RECURSIVE SubsetsUpTo(_, _)
SubsetsUpTo(S, k) ==
    IF k = 0 THEN {{}}
    ELSE LET smaller == SubsetsUpTo(S, k - 1)
         IN  smaller \cup {T \cup {x} : T \in smaller, x \in S}

ImagePixels == (1..ImageWidth) \X (1..ImageHeight)

\* the pixels of the sliding window around p: 2 * d + 1 pixels wide and high
Window(p, d) == {q \in ImagePixels : Abs(q[1] - p[1]) <= d /\ Abs(q[2] - p[2]) <= d}

\* find_peaks(image, threshold, min_distance): the pixels that are the maximum
\* of the window around them and reach the threshold, with their value
FindPeaks(img, thr, d) ==
    {[x |-> p[1], y |-> p[2], value |-> img[p]] :
        p \in {q \in ImagePixels :
                  /\ img[q] >= thr
                  /\ \A w \in Window(q, d) : img[w] <= img[q]}}

\* sqrt_ts images: flat at 0 but for the pixels of H, which are around the threshold
SqrtTsImages(H) ==
    {[p \in ImagePixels |-> IF p \in H THEN v[p] ELSE 0] :
        v \in [H -> (peak_threshold - 1)..(peak_threshold + 1)]}

InitPeaks ==
    /\ nb = "detect"
    /\ pc = 1
    /\ status = "running"
    /\ ns = [x \in AllNames |-> 0]
    /\ mem = EmptyMem
    /\ log = << >>
    /\ raised = ""
    /\ surfaced = ""
    /\ \E H \in SubsetsUpTo(ImagePixels, MaxHot) : image \in SqrtTsImages(H)
    /\ peaks = {}
    /\ cube = << >>
    /\ smoothed = << >>
    /\ phase = "image"

CallFindPeaks ==
    /\ phase = "image"
    /\ peaks' = FindPeaks(image, peak_threshold, min_distance)
    /\ phase' = "sources"
    /\ UNCHANGED <<nb, pc, status, ns, mem, log, raised, surfaced, image, cube, smoothed>>

NextPeaks == CallFindPeaks

SpecPeaks == InitPeaks /\ [][NextPeaks]_vars

-----------------------------------------------------------------------------
(* The adaptive smoothing on its own *)

\* ASmoothMapEstimator(threshold, scales).run: each pixel gets the first scale
\* at which its significance reaches the threshold and keeps the value smoothed
\* at that scale; a pixel that reaches it at no scale is clipped
SmoothReduce(sig, thr) ==
    [p \in DOMAIN sig |->
        IF \E s \in 1..Len(sig[p]) : sig[p][s] >= thr
        THEN LET s0 == CHOOSE s \in 1..Len(sig[p]) :
                          /\ sig[p][s] >= thr
                          /\ \A r \in 1..(s - 1) : sig[p][r] < thr
             IN  [kept |-> TRUE, scale |-> s0, significance |-> sig[p][s0]]
        ELSE [kept |-> FALSE, scale |-> 0, significance |-> 0]]

SmoothEntries == (1..SmoothPixels) \X (1..nscales)

\* significance cubes: 2 everywhere but for the entries of H, which are at 3 or 4
SignificanceCubes(H) ==
    {[p \in 1..SmoothPixels |->
        [s \in 1..nscales |-> IF <<p, s>> \in H THEN v[<<p, s>>] ELSE 2]] :
        v \in [H -> {3, 4}]}

InitSmooth ==
    /\ nb = "detect"
    /\ pc = 1
    /\ status = "running"
    /\ ns = [x \in AllNames |-> 0]
    /\ mem = EmptyMem
    /\ log = << >>
    /\ raised = ""
    /\ surfaced = ""
    /\ image = << >>
    /\ peaks = {}
    /\ \E H \in SubsetsUpTo(SmoothEntries, MaxSignificant) : cube \in SignificanceCubes(H)
    /\ smoothed = << >>
    /\ phase = "cube"

CallSmoothRun ==
    /\ phase = "cube"
    /\ smoothed' = SmoothReduce(cube, smooth_threshold)
    /\ phase' = "smoothed"
    /\ UNCHANGED <<nb, pc, status, ns, mem, log, raised, surfaced, image, peaks, cube>>

NextSmooth == CallSmoothRun

SpecSmooth == InitSmooth /\ [][NextSmooth]_vars

=============================================================================
